---------------------------- MODULE Spec2Model ----------------------------
(***************************************************************************)
(* Model of innovation_lifestyle_mcp.py: a FastMCP server guarded by a     *)
(* static bearer token (SimpleBearerAuthProvider) that exposes validate    *)
(* and ten report tools.  Strings are sequences of one-character strings   *)
(* so that ==, lower(), capitalize() and the substring test `in` are       *)
(* computed as Python computes them.  A report is the record of every      *)
(* value the tool's f-string substitutes into its fixed template: the      *)
(* returned text is a function of the tool and of that record.             *)
(***************************************************************************)
EXTENDS Integers, Sequences, FiniteSets, TLC

VARIABLES
    phase,           \* "boot" | "serving" | "failed": module import, then mcp.run_async
    env,             \* os.environ after load_dotenv(): AUTH_TOKEN and MY_NUMBER, <<>> when unset
    TOKEN,           \* module global TOKEN: <<>> is None, <<s>> is the string s
    MY_NUMBER,       \* module global MY_NUMBER
    now,             \* the wall clock read by datetime.now()
    ticks,           \* number of clock advances so far
    log,             \* the calls answered so far, oldest first, as the caller saw them
    calls            \* the calls handled step by step, in arrival order, each with its stage

vars == <<phase, env, TOKEN, MY_NUMBER, now, ticks, log, calls>>

-----------------------------------------------------------------------------
(* Bounds of the exploration *)

MaxLog == 3
MaxTicks == 2
MaxCalls == 2

-----------------------------------------------------------------------------
(* String literals.  First the literals the source compares against or     *)
(* declares as defaults, then further sample inputs.                       *)

S_bitcoin == <<"b", "i", "t", "c", "o", "i", "n">>
S_ethereum == <<"e", "t", "h", "e", "r", "e", "u", "m">>
S_ai == <<"a", "i">>
S_tech == <<"t", "e", "c", "h">>
S_low == <<"l", "o", "w">>
S_medium == <<"m", "e", "d", "i", "u", "m">>
S_small == <<"s", "m", "a", "l", "l">>
S_youtube == <<"y", "o", "u", "t", "u", "b", "e">>
S_instagram == <<"i", "n", "s", "t", "a", "g", "r", "a", "m">>
S_tiktok == <<"t", "i", "k", "t", "o", "k">>
S_micro == <<"m", "i", "c", "r", "o">>
S_macro == <<"m", "a", "c", "r", "o">>
S_trend == <<"t", "r", "e", "n", "d">>
S_General == <<"G", "e", "n", "e", "r", "a", "l">>
S_casual == <<"c", "a", "s", "u", "a", "l">>
S_summer == <<"s", "u", "m", "m", "e", "r">>
S_none == <<"n", "o", "n", "e">>
S_intermediate == <<"i", "n", "t", "e", "r", "m", "e", "d", "i", "a", "t", "e">>
S_cyberpunk == <<"c", "y", "b", "e", "r", "p", "u", "n", "k">>
S_rare == <<"r", "a", "r", "e">>
S_video == <<"v", "i", "d", "e", "o">>
S_lifestyle == <<"l", "i", "f", "e", "s", "t", "y", "l", "e">>
S_26_35 == <<"2", "6", "-", "3", "5">>
S_serious == <<"s", "e", "r", "i", "o", "u", "s">>
S_mid_range == <<"m", "i", "d", "-", "r", "a", "n", "g", "e">>
S_couple == <<"c", "o", "u", "p", "l", "e">>
S_Bitcoin == <<"B", "i", "t", "c", "o", "i", "n">>
S_BITCOIN == <<"B", "I", "T", "C", "O", "I", "N">>
S_xBiTcOiNx == <<"x", "B", "i", "T", "c", "O", "i", "N", "x">>
S_Ethereum == <<"E", "t", "h", "e", "r", "e", "u", "m">>
S_Dogecoin == <<"D", "o", "g", "e", "c", "o", "i", "n">>
S_bitcoi == <<"b", "i", "t", "c", "o", "i">>
S_bit_sp_coin == <<"b", "i", "t", " ", "c", "o", "i", "n">>
S_investment == <<"i", "n", "v", "e", "s", "t", "m", "e", "n", "t">>
S_SENTIMENT == <<"S", "E", "N", "T", "I", "M", "E", "N", "T">>
S_AI_sp_tutor == <<"A", "I", " ", "t", "u", "t", "o", "r">>
S_Retail_sp_shop == <<"R", "e", "t", "a", "i", "l", " ", "s", "h", "o", "p">>
S_FinTech_sp_app == <<"F", "i", "n", "T", "e", "c", "h", " ", "a", "p", "p">>
S_Bakery == <<"B", "a", "k", "e", "r", "y">>
S_Students == <<"S", "t", "u", "d", "e", "n", "t", "s">>
S_high == <<"h", "i", "g", "h">>
S_Low == <<"L", "o", "w">>
S_huge == <<"h", "u", "g", "e">>
S_Blog == <<"B", "l", "o", "g">>
S_blog == <<"b", "l", "o", "g">>
S_YouTube == <<"Y", "o", "u", "T", "u", "b", "e">>
S_large == <<"l", "a", "r", "g", "e">>
S_Small == <<"S", "m", "a", "l", "l">>
S_twitter == <<"t", "w", "i", "t", "t", "e", "r">>
S_TikTok == <<"T", "i", "k", "T", "o", "k">>
S_reel == <<"r", "e", "e", "l">>
S_mega == <<"m", "e", "g", "a">>
S_Micro == <<"M", "i", "c", "r", "o">>
S_formal == <<"f", "o", "r", "m", "a", "l">>
S_winter == <<"w", "i", "n", "t", "e", "r">>
S_vINTAGE == <<"v", "I", "N", "T", "A", "G", "E">>
S_italian == <<"i", "t", "a", "l", "i", "a", "n">>
S_vegan == <<"v", "e", "g", "a", "n">>
S_pixel == <<"p", "i", "x", "e", "l">>
S_epic == <<"e", "p", "i", "c">>
S_tinder == <<"t", "i", "n", "d", "e", "r">>
S_45_plus == <<"4", "5", "+">>
S_beach == <<"b", "e", "a", "c", "h">>
S_luxury == <<"l", "u", "x", "u", "r", "y">>
S_solo == <<"s", "o", "l", "o">>
S_tok == <<"t", "o", "k">>
S_Tok == <<"T", "o", "k">>
S_TOK == <<"T", "O", "K">>
S__sp_tok == <<" ", "t", "o", "k">>
S_tok_sp_ == <<"t", "o", "k", " ">>
S_to == <<"t", "o">>
S_919876543210 == <<"9", "1", "9", "8", "7", "6", "5", "4", "3", "2", "1", "0">>
S__plus91_sp_98 == <<"+", "9", "1", " ", "9", "8">>
S_empty == <<>>

-----------------------------------------------------------------------------
(* Python str primitives *)

LowerAlpha == <<"a","b","c","d","e","f","g","h","i","j","k","l","m",
                "n","o","p","q","r","s","t","u","v","w","x","y","z">>
UpperAlpha == <<"A","B","C","D","E","F","G","H","I","J","K","L","M",
                "N","O","P","Q","R","S","T","U","V","W","X","Y","Z">>

lowerChar(c) ==
    IF \E i \in 1..26 : UpperAlpha[i] = c
    THEN LowerAlpha[CHOOSE i \in 1..26 : UpperAlpha[i] = c]
    ELSE c

upperChar(c) ==
    IF \E i \in 1..26 : LowerAlpha[i] = c
    THEN UpperAlpha[CHOOSE i \in 1..26 : LowerAlpha[i] = c]
    ELSE c

\* str.lower()
lower(s) == [i \in 1..Len(s) |-> lowerChar(s[i])]

\* variant: only the first character is changed, the rest keep their case
capitalize_first_only(s) ==
    [i \in 1..Len(s) |-> IF i = 1 THEN upperChar(s[i]) ELSE s[i]]

\* str.capitalize(): first character upper-cased, the rest lower-cased
capitalize(s) ==
    [i \in 1..Len(s) |-> IF i = 1 THEN upperChar(s[i]) ELSE lowerChar(s[i])]

\* sub in s
contains(sub, s) ==
    \E i \in 0..(Len(s) - Len(sub)) : SubSeq(s, i + 1, i + Len(sub)) = sub

-----------------------------------------------------------------------------
(* datetime.now().strftime('%B %d, %Y') *)

MonthName == <<"January", "February", "March", "April", "May", "June", "July",
               "August", "September", "October", "November", "December">>

IsLeap(y) == (y % 4 = 0 /\ y % 100 # 0) \/ y % 400 = 0

DaysIn(m, y) ==
    IF m = 2 THEN (IF IsLeap(y) THEN 29 ELSE 28)
    ELSE IF m \in {4, 6, 9, 11} THEN 30 ELSE 31

\* variant: the format also carries the hour ('%B %d, %Y %H')
strftime_hour(t) ==
    [B |-> MonthName[t.month], d |-> <<t.day \div 10, t.day % 10>>, Y |-> t.year, H |-> t.hour]

\* %B is the full month name, %d the zero-padded day, %Y the year
strftime(t) == [B |-> MonthName[t.month], d |-> <<t.day \div 10, t.day % 10>>, Y |-> t.year]

-----------------------------------------------------------------------------
(* The tools.  Each takes its parameters and the value of datetime.now()   *)
(* it reads, and returns the record of the values substituted into its     *)
(* template, one field per {...} expression, in source order.              *)

\* variant: the number is returned without its leading '+'
validate_stripped(my_number) ==
    IF my_number # <<>> /\ my_number[1] = "+" THEN Tail(my_number) ELSE my_number

\* @mcp.tool validate: return MY_NUMBER
validate(my_number) == my_number

crypto_current_sentiment(crypto_name) ==
    IF contains(S_bitcoin, lower(crypto_name)) \/ contains(S_ethereum, lower(crypto_name))
    THEN "Bullish" ELSE "Neutral"

\* variant: 'bitcoin' is looked for without lower-casing the name
crypto_potential_roi_cased(crypto_name) ==
    IF contains(S_bitcoin, crypto_name) THEN "15-25% annually" ELSE "20-40% annually"

\* variant: 'ethereum' selects the first branch as 'bitcoin' does
crypto_potential_roi_ethereum(crypto_name) ==
    IF contains(S_bitcoin, lower(crypto_name)) \/ contains(S_ethereum, lower(crypto_name))
    THEN "15-25% annually" ELSE "20-40% annually"

crypto_potential_roi(crypto_name) ==
    IF contains(S_bitcoin, lower(crypto_name)) THEN "15-25% annually" ELSE "20-40% annually"

crypto_intelligence(crypto_name, analysis_type, t) ==
    LET btc == contains(S_bitcoin, lower(crypto_name)) IN
    [ tool              |-> "crypto_intelligence",
      title             |-> crypto_name,
      cryptocurrency    |-> crypto_name,
      analysis_type     |-> capitalize(analysis_type),
      date              |-> strftime(t),
      current_sentiment |-> crypto_current_sentiment(crypto_name),
      market_cap_trend  |-> IF btc THEN "Growing rapidly" ELSE "Stable growth",
      trading_volume    |-> IF btc THEN "High activity" ELSE "Moderate activity",
      risk_level        |-> IF btc THEN "Medium-High" ELSE "High",
      potential_roi     |-> crypto_potential_roi(crypto_name),
      market_position   |-> IF btc THEN "Leading cryptocurrency" ELSE "Emerging player",
      market_sentiment  |-> IF btc THEN "Very positive" ELSE "Positive",
      short_term        |-> IF btc THEN "Bullish trend expected" ELSE "Volatile but upward",
      medium_term       |-> IF btc THEN "Strong growth potential" ELSE "Growth potential",
      long_term         |-> IF btc THEN "Mainstream adoption" ELSE "Increased adoption" ]

startup_competitive_advantage(business_idea) ==
    IF contains(S_ai, lower(business_idea)) \/ contains(S_tech, lower(business_idea))
    THEN "Technology innovation" ELSE "Unique value proposition"

\* variant: 'ai' is looked for as a word of its own
startup_barriers_to_entry_word(business_idea) ==
    IF \E i \in 0..(Len(business_idea) - 2) :
          /\ SubSeq(lower(business_idea), i + 1, i + 2) = S_ai
          /\ (i = 0 \/ business_idea[i] = " ")
          /\ (i + 2 = Len(business_idea) \/ business_idea[i + 3] = " ")
    THEN "Medium" ELSE "Low to Medium"

startup_barriers_to_entry(business_idea) ==
    IF contains(S_ai, lower(business_idea)) THEN "Medium" ELSE "Low to Medium"

\* variant: 'high' is matched too and any other value gets no figure
startup_seed_round_strict(investment_needed) ==
    IF investment_needed = S_low THEN "50K-100K"
    ELSE IF investment_needed = S_medium THEN "200K-500K"
    ELSE IF investment_needed = S_high THEN "1M-2M" ELSE "N/A"

startup_seed_round(investment_needed) ==
    IF investment_needed = S_low THEN "50K-100K"
    ELSE IF investment_needed = S_medium THEN "200K-500K" ELSE "1M-2M"

startup_builder(business_idea, target_market, investment_needed, t) ==
    [ tool                  |-> "startup_builder",
      title                 |-> business_idea,
      idea                  |-> business_idea,
      target_market         |-> target_market,
      investment_level      |-> capitalize(investment_needed),
      date                  |-> strftime(t),
      competitive_advantage |-> startup_competitive_advantage(business_idea),
      barriers_to_entry     |-> startup_barriers_to_entry(business_idea),
      seed_round            |-> startup_seed_round(investment_needed) ]

\* the three-way choice on audience_size of lines 287-289 and 332-334
content_tier(audience_size, small, medium, large) ==
    IF audience_size = S_small THEN small
    ELSE IF audience_size = S_medium THEN medium ELSE large

\* variant: the platform is lower-cased before it is compared
content_platform_nocase(platform, youtube, instagram, tiktok, other) ==
    IF lower(platform) = S_youtube THEN youtube
    ELSE IF lower(platform) = S_instagram THEN instagram
    ELSE IF lower(platform) = S_tiktok THEN tiktok ELSE other

\* the four-way choice on platform of lines 325-327
content_platform(platform, youtube, instagram, tiktok, other) ==
    IF platform = S_youtube THEN youtube
    ELSE IF platform = S_instagram THEN instagram
    ELSE IF platform = S_tiktok THEN tiktok ELSE other

\* variant: the "6 months" line lower-cases audience_size before it is compared
content_monetization_mixed(content_type, platform, audience_size, t) ==
    [ tool               |-> "content_monetization",
      title_content      |-> capitalize(content_type),
      title_platform     |-> capitalize(platform),
      content_type       |-> capitalize(content_type),
      platform           |-> capitalize(platform),
      audience_size      |-> capitalize(audience_size),
      date               |-> strftime(t),
      ad_revenue         |-> content_tier(audience_size, "500-2K", "2K-10K", "10K-50K"),
      sponsorships       |-> content_tier(audience_size, "1K-5K", "5K-20K", "20K-100K"),
      affiliate          |-> content_tier(audience_size, "200-1K", "1K-5K", "5K-25K"),
      optimization       |-> capitalize(platform),
      best_posting_times |-> content_platform(platform, "7-9 PM", "12-3 PM", "6-10 PM", "9-11 AM"),
      optimal_length     |-> content_platform(platform, "10-15 minutes", "30-60 seconds",
                                              "15-60 seconds", "1500-2500 words"),
      engagement_tactics |-> content_platform(platform, "Call-to-actions, end screens",
                                              "Stories, Reels, IGTV",
                                              "Trending sounds, challenges",
                                              "Comments, social sharing"),
      current            |-> content_tier(audience_size, "500-2K", "2K-10K", "10K-50K"),
      six_months         |-> content_tier(lower(audience_size), "2K-8K", "8K-30K", "30K-150K"),
      twelve_months      |-> content_tier(audience_size, "5K-20K", "20K-80K", "80K-300K") ]

content_monetization(content_type, platform, audience_size, t) ==
    [ tool               |-> "content_monetization",
      title_content      |-> capitalize(content_type),
      title_platform     |-> capitalize(platform),
      content_type       |-> capitalize(content_type),
      platform           |-> capitalize(platform),
      audience_size      |-> capitalize(audience_size),
      date               |-> strftime(t),
      ad_revenue         |-> content_tier(audience_size, "500-2K", "2K-10K", "10K-50K"),
      sponsorships       |-> content_tier(audience_size, "1K-5K", "5K-20K", "20K-100K"),
      affiliate          |-> content_tier(audience_size, "200-1K", "1K-5K", "5K-25K"),
      optimization       |-> capitalize(platform),
      best_posting_times |-> content_platform(platform, "7-9 PM", "12-3 PM", "6-10 PM", "9-11 AM"),
      optimal_length     |-> content_platform(platform, "10-15 minutes", "30-60 seconds",
                                              "15-60 seconds", "1500-2500 words"),
      engagement_tactics |-> content_platform(platform, "Call-to-actions, end screens",
                                              "Stories, Reels, IGTV",
                                              "Trending sounds, challenges",
                                              "Comments, social sharing"),
      current            |-> content_tier(audience_size, "500-2K", "2K-10K", "10K-50K"),
      six_months         |-> content_tier(audience_size, "2K-8K", "8K-30K", "30K-150K"),
      twelve_months      |-> content_tier(audience_size, "5K-20K", "20K-80K", "80K-300K") ]

fashion_predictor(style_preference, occasion, season, t) ==
    [ tool            |-> "fashion_predictor",
      your_preference |-> capitalize(style_preference),
      occasion        |-> capitalize(occasion),
      season          |-> capitalize(season),
      date            |-> strftime(t),
      trending_for    |-> capitalize(season),
      for_style       |-> capitalize(style_preference),
      outfit_ideas    |-> capitalize(occasion) ]

\* variant: the first letter of cuisine_type is indexed, which fails on the
\* empty string after the heading is already produced
food_innovator_indexing(cuisine_type, dietary_restrictions, skill_level, t) ==
    IF cuisine_type = <<>>
    THEN [ tool |-> "food_innovator" ]
    ELSE [ tool                 |-> "food_innovator",
           cuisine_type         |-> capitalize(cuisine_type),
           dietary_restrictions |-> capitalize(dietary_restrictions),
           skill_level          |-> capitalize(skill_level),
           date                 |-> strftime(t),
           innovation_ideas     |-> capitalize(cuisine_type),
           for_cooks            |-> capitalize(skill_level) ]

food_innovator(cuisine_type, dietary_restrictions, skill_level, t) ==
    [ tool                 |-> "food_innovator",
      cuisine_type         |-> capitalize(cuisine_type),
      dietary_restrictions |-> capitalize(dietary_restrictions),
      skill_level          |-> capitalize(skill_level),
      date                 |-> strftime(t),
      innovation_ideas     |-> capitalize(cuisine_type),
      for_cooks            |-> capitalize(skill_level) ]

nft_creator(art_style, theme, rarity_level, t) ==
    [ tool         |-> "nft_creator",
      art_style    |-> capitalize(art_style),
      theme        |-> capitalize(theme),
      rarity_level |-> capitalize(rarity_level),
      date         |-> strftime(t),
      style_guide  |-> capitalize(art_style) ]

\* the four-way choice on platform of lines 789-791
social_platform(platform, tiktok, instagram, youtube, other) ==
    IF platform = S_tiktok THEN tiktok
    ELSE IF platform = S_instagram THEN instagram
    ELSE IF platform = S_youtube THEN youtube ELSE other

\* variant: the platform is lower-cased before it is compared
social_best_posting_times_nocase(platform) ==
    social_platform(lower(platform), "7-9 PM", "12-3 PM", "2-4 PM", "9-11 AM")

social_best_posting_times(platform) ==
    social_platform(platform, "7-9 PM", "12-3 PM", "2-4 PM", "9-11 AM")

social_media_trend_predictor(platform, content_type, niche, t) ==
    [ tool               |-> "social_media_trend_predictor",
      title              |-> capitalize(platform),
      platform           |-> capitalize(platform),
      content_type       |-> capitalize(content_type),
      niche              |-> capitalize(niche),
      date               |-> strftime(t),
      trending_for       |-> capitalize(platform),
      best_posting_times |-> social_best_posting_times(platform),
      optimal_frequency  |-> social_platform(platform, "2-3 times daily", "1-2 times daily",
                                             "2-3 times weekly", "3-5 times daily"),
      engagement_windows |-> social_platform(platform, "First 2 hours critical",
                                             "First 6 hours important",
                                             "First 24 hours key",
                                             "First 30 minutes crucial"),
      strategy_for       |-> capitalize(niche) ]

influencer_base_rate(influencer_type) ==
    IF influencer_type = S_micro THEN "100-500"
    ELSE IF influencer_type = S_macro THEN "1,000-5,000" ELSE "10,000-50,000"

influencer_matcher(influencer_type, niche, platform, t) ==
    [ tool          |-> "influencer_matcher",
      type          |-> capitalize(influencer_type),
      niche         |-> capitalize(niche),
      platform      |-> capitalize(platform),
      date          |-> strftime(t),
      matches_for   |-> capitalize(niche),
      pricing       |-> capitalize(influencer_type),
      base_rate     |-> influencer_base_rate(influencer_type) ]

dating_optimizer(dating_platform, age_range, relationship_goal, t) ==
    [ tool              |-> "dating_optimizer",
      platform          |-> capitalize(dating_platform),
      age_range         |-> age_range,
      relationship_goal |-> capitalize(relationship_goal),
      date              |-> strftime(t) ]

travel_curator(destination_type, budget_range, travel_style, t) ==
    [ tool              |-> "travel_curator",
      destination_type  |-> capitalize(destination_type),
      budget_range      |-> capitalize(budget_range),
      travel_style      |-> capitalize(travel_style),
      date              |-> strftime(t),
      destinations_for  |-> capitalize(destination_type),
      destinations_style |-> capitalize(travel_style),
      budget_breakdown  |-> capitalize(budget_range) ]

-----------------------------------------------------------------------------
(* Tool registration: the signatures FastMCP derives from the decorated    *)
(* functions.  A parameter without a default is required.                  *)

Req(p) == [name |-> p, required |-> TRUE, default |-> <<>>]
Opt(p, d) == [name |-> p, required |-> FALSE, default |-> <<d>>]

sig_validate == <<>>
\* variant: analysis_type defaults to "investment"
sig_crypto_intelligence_investment ==
    <<Req("crypto_name"), Opt("analysis_type", S_investment)>>

sig_crypto_intelligence ==
    <<Req("crypto_name"), Opt("analysis_type", S_trend)>>
sig_startup_builder ==
    <<Req("business_idea"), Opt("target_market", S_General), Opt("investment_needed", S_medium)>>
sig_content_monetization ==
    <<Req("content_type"), Opt("platform", S_youtube), Opt("audience_size", S_medium)>>
sig_fashion_predictor ==
    <<Req("style_preference"), Opt("occasion", S_casual), Opt("season", S_summer)>>
sig_food_innovator ==
    <<Req("cuisine_type"), Opt("dietary_restrictions", S_none), Opt("skill_level", S_intermediate)>>
sig_nft_creator ==
    <<Req("art_style"), Opt("theme", S_cyberpunk), Opt("rarity_level", S_rare)>>
\* variant: platform is given a default, so it is no longer required
sig_social_media_trend_predictor_optional ==
    <<Opt("platform", S_tiktok), Opt("content_type", S_video), Opt("niche", S_lifestyle)>>

sig_social_media_trend_predictor ==
    <<Req("platform"), Opt("content_type", S_video), Opt("niche", S_lifestyle)>>
sig_influencer_matcher ==
    <<Req("influencer_type"), Opt("niche", S_lifestyle), Opt("platform", S_instagram)>>
\* variant: relationship_goal defaults to "casual"
sig_dating_optimizer_casual ==
    <<Req("dating_platform"), Opt("age_range", S_26_35), Opt("relationship_goal", S_casual)>>

sig_dating_optimizer ==
    <<Req("dating_platform"), Opt("age_range", S_26_35), Opt("relationship_goal", S_serious)>>
sig_travel_curator ==
    <<Req("destination_type"), Opt("budget_range", S_mid_range), Opt("travel_style", S_couple)>>

\* the names registered with @mcp.tool
Tools ==
    { "validate", "crypto_intelligence", "startup_builder", "content_monetization",
      "fashion_predictor", "food_innovator", "nft_creator",
      "social_media_trend_predictor", "influencer_matcher", "dating_optimizer",
      "travel_curator" }

Signature(name) ==
    CASE name = "validate" -> sig_validate
      [] name = "crypto_intelligence" -> sig_crypto_intelligence
      [] name = "startup_builder" -> sig_startup_builder
      [] name = "content_monetization" -> sig_content_monetization
      [] name = "fashion_predictor" -> sig_fashion_predictor
      [] name = "food_innovator" -> sig_food_innovator
      [] name = "nft_creator" -> sig_nft_creator
      [] name = "social_media_trend_predictor" -> sig_social_media_trend_predictor
      [] name = "influencer_matcher" -> sig_influencer_matcher
      [] name = "dating_optimizer" -> sig_dating_optimizer
      [] name = "travel_curator" -> sig_travel_curator

ParamNames(sig) == { sig[i].name : i \in 1..Len(sig) }

\* Python argument binding: the supplied value, else the declared default
Bind(sig, args) ==
    [ i \in 1..Len(sig) |->
        IF sig[i].name \in DOMAIN args THEN args[sig[i].name] ELSE sig[i].default[1] ]

MissingRequired(sig, args) ==
    \E i \in 1..Len(sig) : sig[i].required /\ sig[i].name \notin DOMAIN args

\* variant: crypto_intelligence puts MY_NUMBER in the heading of its report
RunTool_identity(name, a, my_number, t) ==
    CASE name = "validate" -> validate(my_number)
      [] name = "crypto_intelligence" ->
            [crypto_intelligence(a[1], a[2], t) EXCEPT !.title = my_number]
      [] name = "startup_builder" -> startup_builder(a[1], a[2], a[3], t)
      [] name = "content_monetization" -> content_monetization(a[1], a[2], a[3], t)
      [] name = "fashion_predictor" -> fashion_predictor(a[1], a[2], a[3], t)
      [] name = "food_innovator" -> food_innovator(a[1], a[2], a[3], t)
      [] name = "nft_creator" -> nft_creator(a[1], a[2], a[3], t)
      [] name = "social_media_trend_predictor" -> social_media_trend_predictor(a[1], a[2], a[3], t)
      [] name = "influencer_matcher" -> influencer_matcher(a[1], a[2], a[3], t)
      [] name = "dating_optimizer" -> dating_optimizer(a[1], a[2], a[3], t)
      [] name = "travel_curator" -> travel_curator(a[1], a[2], a[3], t)

\* the decorated function called with its bound arguments
RunTool(name, a, my_number, t) ==
    CASE name = "validate" -> validate(my_number)
      [] name = "crypto_intelligence" -> crypto_intelligence(a[1], a[2], t)
      [] name = "startup_builder" -> startup_builder(a[1], a[2], a[3], t)
      [] name = "content_monetization" -> content_monetization(a[1], a[2], a[3], t)
      [] name = "fashion_predictor" -> fashion_predictor(a[1], a[2], a[3], t)
      [] name = "food_innovator" -> food_innovator(a[1], a[2], a[3], t)
      [] name = "nft_creator" -> nft_creator(a[1], a[2], a[3], t)
      [] name = "social_media_trend_predictor" -> social_media_trend_predictor(a[1], a[2], a[3], t)
      [] name = "influencer_matcher" -> influencer_matcher(a[1], a[2], a[3], t)
      [] name = "dating_optimizer" -> dating_optimizer(a[1], a[2], a[3], t)
      [] name = "travel_curator" -> travel_curator(a[1], a[2], a[3], t)

Text(body) == [kind |-> "text", body |-> body]
Error(e) == [kind |-> "error", error |-> e]

\* variant: a name that is not registered is served by validate
call_tool_fallback(name, args, my_number, t) ==
    IF name \notin Tools THEN Text(validate(my_number))
    ELSE IF MissingRequired(Signature(name), args) THEN Error("MissingParameter")
    ELSE Text(RunTool(name, Bind(Signature(name), args), my_number, t))

\* the dispatcher: look the tool up by name, bind the arguments, run it
call_tool(name, args, my_number, t) ==
    IF name \notin Tools THEN Error("UnknownOperation")
    ELSE IF MissingRequired(Signature(name), args) THEN Error("MissingParameter")
    ELSE Text(RunTool(name, Bind(Signature(name), args), my_number, t))

-----------------------------------------------------------------------------
(* SimpleBearerAuthProvider *)

\* variant: the presented token is compared without regard to letter case
load_access_token_nocase(self_token, token) ==
    IF lower(token) = lower(self_token)
    THEN << [ token      |-> token,
              client_id  |-> "puch-client",
              scopes     |-> <<"*">>,
              expires_at |-> <<>> ] >>
    ELSE <<>>

\* variant: the scopes are taken from the presented token
load_access_token_scoped(self_token, token) ==
    IF token = self_token
    THEN << [ token      |-> token,
              client_id  |-> "puch-client",
              scopes     |-> IF token = <<>> THEN <<>> ELSE <<"*">>,
              expires_at |-> <<>> ] >>
    ELSE <<>>

\* load_access_token: an AccessToken, or None (<<>>)
load_access_token(self_token, token) ==
    IF token = self_token
    THEN << [ token      |-> token,
              client_id  |-> "puch-client",
              scopes     |-> <<"*">>,
              expires_at |-> <<>> ] >>
    ELSE <<>>

\* variant: the server is built without auth=, every call is dispatched
HandleCall_noauth(token, name, args, t) ==
    LET access == load_access_token(TOKEN[1], token) IN
    [ token      |-> token,
      name       |-> name,
      args       |-> args,
      time       |-> t,
      access     |-> access,
      dispatched |-> TRUE,
      response   |-> call_tool(name, args, MY_NUMBER[1], t) ]

\* One inbound call on the server built with auth=SimpleBearerAuthProvider(TOKEN):
\* the bearer token is checked first, and only an authorized call is dispatched.
HandleCall(token, name, args, t) ==
    LET access == load_access_token(TOKEN[1], token) IN
    [ token      |-> token,
      name       |-> name,
      args       |-> args,
      time       |-> t,
      access     |-> access,
      dispatched |-> access # <<>>,
      response   |-> IF access = <<>> THEN Error("AuthenticationFailure")
                     ELSE call_tool(name, args, MY_NUMBER[1], t) ]

-----------------------------------------------------------------------------
(* Inputs *)

\* values of the environment variables AUTH_TOKEN and MY_NUMBER; <<>> is unset
EnvTokens == { <<>>, <<S_empty>>, <<S_tok>> }
EnvNumbers == { <<>>, <<S_919876543210>>, <<S__plus91_sp_98>> }

StartTime == [year |-> 2025, month |-> 12, day |-> 31, hour |-> 0]

\* bearer tokens a caller may present
AllTokens == { S_tok, S_Tok, S_TOK, S__sp_tok, S_tok_sp_, S_to, S_empty, S_bitcoin }
FewTokens == { S_tok, S_Tok }

\* sample values of each parameter, by parameter name
Samples(p) ==
    CASE p = "crypto_name" -> { S_bitcoin, S_Bitcoin, S_BITCOIN, S_xBiTcOiNx, S_ethereum,
                                S_Ethereum, S_Dogecoin, S_bitcoi, S_bit_sp_coin, S_empty }
      [] p = "analysis_type" -> { S_trend, S_investment, S_SENTIMENT }
      [] p = "business_idea" -> { S_AI_sp_tutor, S_Retail_sp_shop, S_FinTech_sp_app,
                                  S_Bakery, S_tech, S_empty }
      [] p = "target_market" -> { S_General, S_Students }
      [] p = "investment_needed" -> { S_medium, S_low, S_high, S_Low, S_huge }
      [] p = "content_type" -> { S_video, S_Blog }
      [] p = "platform" -> { S_youtube, S_instagram, S_tiktok, S_twitter, S_TikTok, S_YouTube }
      [] p = "audience_size" -> { S_medium, S_small, S_large, S_Small }
      [] p = "style_preference" -> { S_casual, S_vINTAGE }
      [] p = "occasion" -> { S_casual, S_formal }
      [] p = "season" -> { S_summer, S_winter }
      [] p = "cuisine_type" -> { S_italian, S_empty }
      [] p = "dietary_restrictions" -> { S_none, S_vegan }
      [] p = "skill_level" -> { S_intermediate, S_high }
      [] p = "art_style" -> { S_pixel, S_Blog }
      [] p = "theme" -> { S_cyberpunk, S_tech }
      [] p = "rarity_level" -> { S_rare, S_epic }
      [] p = "niche" -> { S_lifestyle, S_tech }
      [] p = "influencer_type" -> { S_micro, S_macro, S_mega, S_Micro }
      [] p = "dating_platform" -> { S_tinder, S_TikTok }
      [] p = "age_range" -> { S_26_35, S_45_plus }
      [] p = "relationship_goal" -> { S_serious, S_casual }
      [] p = "destination_type" -> { S_beach, S_empty }
      [] p = "budget_range" -> { S_mid_range, S_luxury }
      [] p = "travel_style" -> { S_couple, S_solo }

\* every mapping from a subset of the parameter names to sample values
ArgChoices(names) ==
    UNION { { f \in [D -> UNION { Samples(p) : p \in D }] : \A p \in D : f[p] \in Samples(p) }
            : D \in SUBSET names }

UnknownNames == { "weather_forecast", "Validate" }

Request(name, args) == [name |-> name, args |-> args]

AllRequests ==
    UNION { { Request(n, a) : a \in ArgChoices(ParamNames(Signature(n))) } : n \in Tools }
    \cup { Request(n, a) : n \in UnknownNames, a \in ArgChoices({"crypto_name"}) }

FewRequests ==
    { Request("validate", <<>>),
      Request("crypto_intelligence", [p \in {"crypto_name"} |-> S_Bitcoin]),
      Request("crypto_intelligence", [p \in {"analysis_type"} |-> S_trend]),
      Request("social_media_trend_predictor", [p \in {"platform"} |-> S_tiktok]),
      Request("weather_forecast", <<>>) }

-----------------------------------------------------------------------------
(* Actions *)

Init ==
    /\ phase = "boot"
    /\ env \in [AUTH_TOKEN : EnvTokens, MY_NUMBER : EnvNumbers]
    /\ TOKEN = <<>>
    /\ MY_NUMBER = <<>>
    /\ now = StartTime
    /\ ticks = 0
    /\ log = <<>>
    /\ calls = <<>>

\* variant: only AUTH_TOKEN is asserted
Startup_one_assert ==
    /\ phase = "boot"
    /\ TOKEN' = env.AUTH_TOKEN
    /\ MY_NUMBER' = env.MY_NUMBER
    /\ phase' = IF env.AUTH_TOKEN # <<>> THEN "serving" ELSE "failed"
    /\ UNCHANGED <<env, now, ticks, log, calls>>

\* variant: an empty AUTH_TOKEN is refused like a missing one
Startup_nonempty ==
    /\ phase = "boot"
    /\ TOKEN' = env.AUTH_TOKEN
    /\ MY_NUMBER' = env.MY_NUMBER
    /\ phase' = IF env.AUTH_TOKEN \notin {<<>>, <<S_empty>>} /\ env.MY_NUMBER # <<>>
                THEN "serving" ELSE "failed"
    /\ UNCHANGED <<env, now, ticks, log, calls>>

\* Module import: read the two environment variables, assert both are set,
\* build the server; main() then serves.
Startup ==
    /\ phase = "boot"
    /\ TOKEN' = env.AUTH_TOKEN
    /\ MY_NUMBER' = env.MY_NUMBER
    /\ phase' = IF env.AUTH_TOKEN # <<>> /\ env.MY_NUMBER # <<>> THEN "serving" ELSE "failed"
    /\ UNCHANGED <<env, now, ticks, log, calls>>

\* twelve hours later
Later(t) ==
    IF t.hour + 12 < 24 THEN [t EXCEPT !.hour = t.hour + 12]
    ELSE IF t.day < DaysIn(t.month, t.year)
         THEN [t EXCEPT !.hour = t.hour + 12 - 24, !.day = t.day + 1]
    ELSE IF t.month < 12
         THEN [t EXCEPT !.hour = t.hour + 12 - 24, !.day = 1, !.month = t.month + 1]
    ELSE [t EXCEPT !.hour = t.hour + 12 - 24, !.day = 1, !.month = 1, !.year = t.year + 1]

\* The wall clock advances.
Tick ==
    /\ ticks < MaxTicks
    /\ now' = Later(now)
    /\ ticks' = ticks + 1
    /\ UNCHANGED <<phase, env, TOKEN, MY_NUMBER, log, calls>>

\* variant: the provider keeps the token it was last shown
Serve_rekey(tokens, requests, depth) ==
    /\ phase = "serving"
    /\ Len(log) < depth
    /\ \E token \in tokens, r \in requests :
         /\ log' = Append(log, HandleCall(token, r.name, r.args, now))
         /\ TOKEN' = <<token>>
    /\ UNCHANGED <<phase, env, MY_NUMBER, now, ticks, calls>>

\* variant: after one denied call every later call is denied
Serve_lockout(tokens, requests, depth) ==
    /\ phase = "serving"
    /\ Len(log) < depth
    /\ \E token \in tokens, r \in requests :
         log' = Append(log,
                  IF \E i \in 1..Len(log) : log[i].access = <<>>
                  THEN [ HandleCall(token, r.name, r.args, now) EXCEPT
                           !.access = <<>>,
                           !.dispatched = FALSE,
                           !.response = Error("AuthenticationFailure") ]
                  ELSE HandleCall(token, r.name, r.args, now))
    /\ UNCHANGED <<phase, env, TOKEN, MY_NUMBER, now, ticks, calls>>

\* The server answers one call; the caller's view of it is appended to log.
Serve(tokens, requests, depth) ==
    /\ phase = "serving"
    /\ Len(log) < depth
    /\ \E token \in tokens, r \in requests :
         log' = Append(log, HandleCall(token, r.name, r.args, now))
    /\ UNCHANGED <<phase, env, TOKEN, MY_NUMBER, now, ticks, calls>>

Next == Startup \/ Tick \/ Serve(FewTokens, FewRequests, MaxLog)

Spec == Init /\ [][Next]_vars

\* single calls over the wide input sets
ServeTokens == Serve(AllTokens, FewRequests, 1)
ServeTools == Serve(FewTokens, AllRequests, 1)

NextCall == Startup \/ Tick \/ ServeTokens \/ ServeTools

SpecCall == Init /\ [][NextCall]_vars

-----------------------------------------------------------------------------
(* The same server with each call taken one step at a time, so that the    *)
(* steps of several calls interleave: the tools and load_access_token are  *)
(* coroutines run by one event loop.                                       *)

ConcRequests ==
    { Request("validate", <<>>),
      Request("crypto_intelligence", [p \in {"crypto_name"} |-> S_Bitcoin]),
      Request("crypto_intelligence", [p \in {"analysis_type"} |-> S_trend]),
      Request("weather_forecast", <<>>) }

\* A call arrives.
Receive(tokens, requests, depth) ==
    /\ phase = "serving"
    /\ Len(calls) < depth
    /\ \E token \in tokens, r \in requests :
         calls' = Append(calls, [ token  |-> token,
                                  name   |-> r.name,
                                  args   |-> r.args,
                                  stage  |-> "received",
                                  access |-> <<>>,
                                  time   |-> <<>>,
                                  result |-> <<>> ])
    /\ UNCHANGED <<phase, env, TOKEN, MY_NUMBER, now, ticks, log>>

\* variant: the provider keeps the token it was last shown
Authenticate_rekey(i) ==
    /\ calls[i].stage = "received"
    /\ LET access == load_access_token(TOKEN[1], calls[i].token) IN
         calls' = [calls EXCEPT ![i].access = access,
                                ![i].stage = IF access = <<>> THEN "denied" ELSE "authorized"]
    /\ TOKEN' = <<calls[i].token>>
    /\ UNCHANGED <<phase, env, MY_NUMBER, now, ticks, log>>

\* await load_access_token(token) for call i
Authenticate(i) ==
    /\ calls[i].stage = "received"
    /\ LET access == load_access_token(TOKEN[1], calls[i].token) IN
         calls' = [calls EXCEPT ![i].access = access,
                                ![i].stage = IF access = <<>> THEN "denied" ELSE "authorized"]
    /\ UNCHANGED <<phase, env, TOKEN, MY_NUMBER, now, ticks, log>>

\* variant: the arguments being served are kept in one place shared by all
\* calls, so the tool runs on the arguments that arrived last
Dispatch_shared(i) ==
    /\ calls[i].stage = "authorized"
    /\ calls' = [calls EXCEPT
                   ![i].result = << call_tool(calls[i].name, calls[Len(calls)].args,
                                              MY_NUMBER[1], now) >>,
                   ![i].time = <<now>>,
                   ![i].stage = "dispatched"]
    /\ UNCHANGED <<phase, env, TOKEN, MY_NUMBER, now, ticks, log>>

\* the authorized call i is dispatched: its tool runs to its return
Dispatch(i) ==
    /\ calls[i].stage = "authorized"
    /\ calls' = [calls EXCEPT
                   ![i].result = << call_tool(calls[i].name, calls[i].args, MY_NUMBER[1], now) >>,
                   ![i].time = <<now>>,
                   ![i].stage = "dispatched"]
    /\ UNCHANGED <<phase, env, TOKEN, MY_NUMBER, now, ticks, log>>

\* what the caller of call i is sent
Answer(i, response, t) ==
    [ token      |-> calls[i].token,
      name       |-> calls[i].name,
      args       |-> calls[i].args,
      time       |-> t,
      access     |-> calls[i].access,
      dispatched |-> calls[i].stage = "dispatched",
      response   |-> response,
      id         |-> i ]

\* variant: a call refused for a missing parameter is run again with the
\* empty string for every parameter it did not supply
Respond_fallback(i) ==
    /\ calls[i].stage \in {"denied", "dispatched"}
    /\ log' = Append(log,
                IF calls[i].stage = "denied"
                THEN Answer(i, Error("AuthenticationFailure"), now)
                ELSE IF calls[i].result[1] = Error("MissingParameter")
                THEN Answer(i, call_tool(calls[i].name,
                                         [p \in ParamNames(Signature(calls[i].name)) |->
                                            IF p \in DOMAIN calls[i].args
                                            THEN calls[i].args[p] ELSE S_empty],
                                         MY_NUMBER[1], now), now)
                ELSE Answer(i, calls[i].result[1], calls[i].time[1]))
    /\ calls' = [calls EXCEPT ![i].stage = "done"]
    /\ UNCHANGED <<phase, env, TOKEN, MY_NUMBER, now, ticks>>

\* the response of call i is sent: the authentication failure for a denied
\* call, the dispatcher's result otherwise
Respond(i) ==
    /\ calls[i].stage \in {"denied", "dispatched"}
    /\ log' = Append(log,
                IF calls[i].stage = "denied"
                THEN Answer(i, Error("AuthenticationFailure"), now)
                ELSE Answer(i, calls[i].result[1], calls[i].time[1]))
    /\ calls' = [calls EXCEPT ![i].stage = "done"]
    /\ UNCHANGED <<phase, env, TOKEN, MY_NUMBER, now, ticks>>

NextConc ==
    \/ Startup
    \/ Tick
    \/ Receive(FewTokens, ConcRequests, MaxCalls)
    \/ \E i \in 1..Len(calls) : Authenticate(i)
    \/ \E i \in 1..Len(calls) : Dispatch(i)
    \/ \E i \in 1..Len(calls) : Respond(i)

SpecConc == Init /\ [][NextConc]_vars

-----------------------------------------------------------------------------
(* Properties *)

Entries == { log[i] : i \in 1..Len(log) }

Authorized(e) == e.access # <<>>

\* the name-to-parameters table of the operation catalog
CatalogRequired ==
    [ validate |-> {},
      crypto_intelligence |-> {"crypto_name"},
      startup_builder |-> {"business_idea"},
      content_monetization |-> {"content_type"},
      fashion_predictor |-> {"style_preference"},
      food_innovator |-> {"cuisine_type"},
      nft_creator |-> {"art_style"},
      social_media_trend_predictor |-> {"platform"},
      influencer_matcher |-> {"influencer_type"},
      dating_optimizer |-> {"dating_platform"},
      travel_curator |-> {"destination_type"} ]

CatalogDefaults ==
    [ validate |-> <<>>,
      crypto_intelligence |-> [analysis_type |-> S_trend],
      startup_builder |-> [target_market |-> S_General, investment_needed |-> S_medium],
      content_monetization |-> [platform |-> S_youtube, audience_size |-> S_medium],
      fashion_predictor |-> [occasion |-> S_casual, season |-> S_summer],
      food_innovator |-> [dietary_restrictions |-> S_none, skill_level |-> S_intermediate],
      nft_creator |-> [theme |-> S_cyberpunk, rarity_level |-> S_rare],
      social_media_trend_predictor |-> [content_type |-> S_video, niche |-> S_lifestyle],
      influencer_matcher |-> [niche |-> S_lifestyle, platform |-> S_instagram],
      dating_optimizer |-> [age_range |-> S_26_35, relationship_goal |-> S_serious],
      travel_curator |-> [budget_range |-> S_mid_range, travel_style |-> S_couple] ]

CatalogOperations == DOMAIN CatalogRequired

\* word occurs in s, each letter in either case
ContainsAnyCase(word, s) ==
    \E i \in 0..(Len(s) - Len(word)) :
        \A k \in 1..Len(word) : s[i + k] \in {word[k], upperChar(word[k])}

\* C1: a presented token is Authorized if and only if it equals the configured
\* secret exactly (same case, nothing trimmed, the empty string included);
\* every other token is Denied.
C1_AuthorizedIffExactSecret ==
    \A e \in Entries : Authorized(e) <=> e.token = TOKEN[1]

\* a token that differs from the secret in letter case only has been denied
C1_Witness ==
    \E e \in Entries :
        /\ ~Authorized(e)
        /\ e.token # TOKEN[1]
        /\ lower(e.token) = lower(TOKEN[1])

\* C2: a call gets text only if the auth gate returned an access token for the
\* credential of that very call; a call whose credential is denied is not
\* dispatched and gets the authentication failure, never text.
C2_TextOnlyAfterAuthorized ==
    \A e \in Entries :
        /\ e.response.kind = "text" => Authorized(e) /\ e.access[1].token = e.token
        /\ ~Authorized(e) => ~e.dispatched /\ e.response = Error("AuthenticationFailure")

\* a denied call has been followed by an authorized call that got text
C2_Witness ==
    \E i, j \in 1..Len(log) :
        /\ i < j
        /\ ~Authorized(log[i])
        /\ log[i].response = Error("AuthenticationFailure")
        /\ Authorized(log[j])
        /\ log[j].response.kind = "text"

\* C3: every authorized validate() returns exactly the configured MY_NUMBER,
\* so all validate() calls of a run return the same string, whatever other
\* calls come between them.
C3_ValidateReturnsIdentity ==
    \A e \in Entries :
        e.name = "validate" /\ Authorized(e) =>
            /\ e.response = Text(MY_NUMBER[1])
            /\ \A f \in Entries :
                 f.name = "validate" /\ Authorized(f) => f.response = e.response

\* two authorized validate() calls with a report call between them
C3_Witness ==
    /\ Len(log) = 3
    /\ \A i \in 1..3 : Authorized(log[i])
    /\ log[1].name = "validate"
    /\ log[2].name = "crypto_intelligence"
    /\ log[2].response.kind = "text"
    /\ log[3].name = "validate"
    /\ log[3].response.kind = "text"

C5_OmittedEqualsDefault ==
    \A e \in Entries :
        ( /\ e.dispatched
          /\ e.name \in CatalogOperations
          /\ DOMAIN e.args = CatalogRequired[e.name] )
        => /\ e.response.kind = "text"
           /\ e.response =
                call_tool(e.name, e.args @@ CatalogDefaults[e.name], MY_NUMBER[1], e.time)

\* a report tool has been called with only its required parameter
C5_Witness ==
    \E e \in Entries :
        /\ e.dispatched
        /\ e.name = "travel_curator"
        /\ DOMAIN e.args = {"destination_type"}
        /\ e.response.kind = "text"
        /\ e.response.body.budget_range = capitalize(S_mid_range)

\* C6: a dispatched call of a catalog operation that omits the required
\* parameter gets MissingParameter, whatever optional parameters it supplies.
C6_MissingRequiredIsError ==
    \A e \in Entries :
        ( /\ e.dispatched
          /\ e.name \in CatalogOperations
          /\ ~(CatalogRequired[e.name] \subseteq DOMAIN e.args) )
        => e.response = Error("MissingParameter")

\* a call without the required parameter but with an optional one was refused
C6_Witness ==
    \E e \in Entries :
        /\ e.dispatched
        /\ e.name = "social_media_trend_predictor"
        /\ DOMAIN e.args = {"content_type", "niche"}
        /\ e.response = Error("MissingParameter")

\* C7: a dispatched call whose operation name is none of the eleven catalog
\* names gets UnknownOperation and no text.
C7_UnknownOperationIsError ==
    \A e \in Entries :
        e.dispatched /\ e.name \notin CatalogOperations
        => e.response = Error("UnknownOperation")

\* an unregistered name has been dispatched and refused
C7_Witness ==
    \E e \in Entries :
        /\ e.dispatched
        /\ e.name = "Validate"
        /\ e.response = Error("UnknownOperation")

SameDate(s, t) == s.year = t.year /\ s.month = t.month /\ s.day = t.day

\* C8: two dispatched calls of the same operation with the same arguments on
\* the same calendar date get the same response, whatever was called between.
C8_SameCallSameDateSameText ==
    \A i, j \in 1..Len(log) :
        ( /\ log[i].dispatched /\ log[j].dispatched
          /\ log[i].name = log[j].name
          /\ log[i].args = log[j].args
          /\ SameDate(log[i].time, log[j].time) )
        => log[i].response = log[j].response

\* the same report was asked for at two hours of one day, another call between
C8_Witness ==
    /\ Len(log) = 3
    /\ \A i \in 1..3 : log[i].dispatched
    /\ log[1].name = "crypto_intelligence"
    /\ log[1].response.kind = "text"
    /\ log[2].name # log[1].name
    /\ log[3].name = log[1].name
    /\ log[3].args = log[1].args
    /\ SameDate(log[1].time, log[3].time)
    /\ log[1].time.hour # log[3].time.hour

\* C9: crypto_intelligence reports 'Bullish' and '15-25% annually' for a name
\* containing 'bitcoin' in any letter case, and 'Neutral' and '20-40% annually'
\* for a name containing neither 'bitcoin' nor 'ethereum'.
C9_CryptoSentimentAndRoi ==
    \A e \in Entries :
        e.name = "crypto_intelligence" /\ e.response.kind = "text" =>
            LET crypto_name == e.args["crypto_name"]
                report == e.response.body
            IN  /\ ContainsAnyCase(S_bitcoin, crypto_name) =>
                     /\ report.current_sentiment = "Bullish"
                     /\ report.potential_roi = "15-25% annually"
                /\ ( /\ ~ContainsAnyCase(S_bitcoin, crypto_name)
                     /\ ~ContainsAnyCase(S_ethereum, crypto_name) ) =>
                     /\ report.current_sentiment = "Neutral"
                     /\ report.potential_roi = "20-40% annually"

\* a report for a mixed-case name containing 'bitcoin' has been returned
C9_Witness ==
    \E e \in Entries :
        /\ e.name = "crypto_intelligence"
        /\ e.response.kind = "text"
        /\ e.args["crypto_name"] = S_xBiTcOiNx
        /\ e.response.body.potential_roi = "15-25% annually"

\* C10: social_media_trend_predictor's Best Posting Times is '7-9 PM' for
\* 'tiktok', '12-3 PM' for 'instagram', '2-4 PM' for 'youtube' and '9-11 AM'
\* for every other platform; it is always one of these four.
C10_SocialBestPostingTimes ==
    \A e \in Entries :
        e.name = "social_media_trend_predictor" /\ e.response.kind = "text" =>
            LET platform == e.args["platform"]
                line == e.response.body.best_posting_times
            IN  /\ platform = S_tiktok => line = "7-9 PM"
                /\ platform = S_instagram => line = "12-3 PM"
                /\ platform = S_youtube => line = "2-4 PM"
                /\ platform \notin {S_tiktok, S_instagram, S_youtube} => line = "9-11 AM"
                /\ line \in {"7-9 PM", "12-3 PM", "2-4 PM", "9-11 AM"}

\* a report for a platform outside the three named ones has been returned
C10_Witness ==
    \E e \in Entries :
        /\ e.name = "social_media_trend_predictor"
        /\ e.response.kind = "text"
        /\ e.args["platform"] = S_TikTok
        /\ e.response.body.best_posting_times = "9-11 AM"

\* C11: once the server serves, no step changes the secret or the identity:
\* after any sequence of calls, authorized, denied or refused, both still hold
\* the values read from the environment at startup.
C11_ConfigNeverChanges ==
    [][ phase = "serving" =>
          /\ TOKEN' = TOKEN
          /\ MY_NUMBER' = MY_NUMBER
          /\ TOKEN' = env.AUTH_TOKEN
          /\ MY_NUMBER' = env.MY_NUMBER ]_vars

\* a denied call, a refused call and a successful call have all been answered
C11_Witness ==
    /\ phase = "serving"
    /\ \E e \in Entries : ~Authorized(e)
    /\ \E e \in Entries : e.dispatched /\ e.response.kind = "error"
    /\ \E e \in Entries : e.response.kind = "text"
    /\ TOKEN = env.AUTH_TOKEN
    /\ MY_NUMBER = env.MY_NUMBER

\* C12: when AUTH_TOKEN or MY_NUMBER is missing from the environment, startup
\* fails: the server never serves and never answers a call.
C12_StartupFailsWhenAbsent ==
    (env.AUTH_TOKEN = <<>> \/ env.MY_NUMBER = <<>>) =>
        /\ phase \in {"boot", "failed"}
        /\ log = <<>>

\* startup has failed with the secret set and the identity missing
C12_Witness ==
    /\ phase = "failed"
    /\ env.AUTH_TOKEN # <<>>
    /\ env.MY_NUMBER = <<>>

SigRequired(sig) == { sig[i].name : i \in { k \in 1..Len(sig) : sig[k].required } }

SigOptional(sig) == { sig[i].name : i \in { k \in 1..Len(sig) : ~sig[k].required } }

SigDefault(sig, p) == sig[CHOOSE i \in 1..Len(sig) : sig[i].name = p].default[1]

\* C14: the registered tools are exactly the eleven catalog operations; each
\* has the catalog's required parameter and the catalog's optional parameters
\* with the catalog's defaults; a dispatched call is refused as unknown exactly
\* when its name is not in the catalog.
C14_ToolsAreTheCatalog ==
    /\ Tools = CatalogOperations
    /\ \A n \in Tools :
         /\ SigRequired(Signature(n)) = CatalogRequired[n]
         /\ SigOptional(Signature(n)) = DOMAIN CatalogDefaults[n]
         /\ \A p \in SigOptional(Signature(n)) :
              SigDefault(Signature(n), p) = CatalogDefaults[n][p]
    /\ \A e \in Entries :
         e.dispatched =>
            (e.response = Error("UnknownOperation") <=> e.name \notin CatalogOperations)

\* dating_optimizer, called with its required parameter only, has reported the
\* catalog's defaults
C14_Witness ==
    \E e \in Entries :
        /\ e.dispatched
        /\ e.name = "dating_optimizer"
        /\ DOMAIN e.args = {"dating_platform"}
        /\ e.response.kind = "text"
        /\ e.response.body.age_range = S_26_35
        /\ e.response.body.relationship_goal = capitalize(S_serious)

\* the value a call gives a parameter: the one supplied, else the catalog default
ArgOf(e, p) == IF p \in DOMAIN e.args THEN e.args[p] ELSE CatalogDefaults[e.name][p]

\* C15: in the four tools that branch on an enumerated option, a dispatched
\* call that supplies the required parameter returns a report whatever the
\* option's value, and a value outside the enumerated set gets the text of the
\* final branch.
C15_UnknownOptionTakesDefaultBranch ==
    \A e \in Entries :
        ( /\ e.dispatched
          /\ e.name \in { "startup_builder", "content_monetization",
                          "social_media_trend_predictor", "influencer_matcher" }
          /\ CatalogRequired[e.name] \subseteq DOMAIN e.args )
        => /\ e.response.kind = "text"
           /\ LET report == e.response.body IN
              /\ ( /\ e.name = "startup_builder"
                   /\ ArgOf(e, "investment_needed") \notin {S_low, S_medium, S_high} )
                 => report.seed_round = "1M-2M"
              /\ ( /\ e.name = "content_monetization"
                   /\ ArgOf(e, "platform") \notin {S_youtube, S_instagram, S_tiktok, S_blog} )
                 => /\ report.best_posting_times = "9-11 AM"
                    /\ report.optimal_length = "1500-2500 words"
                    /\ report.engagement_tactics = "Comments, social sharing"
              /\ ( /\ e.name = "content_monetization"
                   /\ ArgOf(e, "audience_size") \notin {S_small, S_medium, S_large} )
                 => /\ report.ad_revenue = "10K-50K"
                    /\ report.sponsorships = "20K-100K"
                    /\ report.affiliate = "5K-25K"
                    /\ report.current = "10K-50K"
                    /\ report.six_months = "30K-150K"
                    /\ report.twelve_months = "80K-300K"
              /\ ( /\ e.name = "social_media_trend_predictor"
                   /\ e.args["platform"] \notin {S_tiktok, S_instagram, S_youtube, S_twitter} )
                 => /\ report.best_posting_times = "9-11 AM"
                    /\ report.optimal_frequency = "3-5 times daily"
                    /\ report.engagement_windows = "First 30 minutes crucial"
              /\ ( /\ e.name = "influencer_matcher"
                   /\ e.args["influencer_type"] \notin {S_micro, S_macro, S_mega} )
                 => report.base_rate = "10,000-50,000"

\* startup_builder has reported for an investment_needed outside low/medium/high
C15_Witness ==
    \E e \in Entries :
        /\ e.dispatched
        /\ e.name = "startup_builder"
        /\ "investment_needed" \in DOMAIN e.args
        /\ e.args["investment_needed"] = S_huge
        /\ e.response.kind = "text"
        /\ e.response.body.seed_round = "1M-2M"

\* the number of {...} expressions in each tool's template
TemplateSlots ==
    [ crypto_intelligence |-> 14,
      startup_builder |-> 8,
      content_monetization |-> 16,
      fashion_predictor |-> 7,
      food_innovator |-> 6,
      nft_creator |-> 5,
      social_media_trend_predictor |-> 10,
      influencer_matcher |-> 7,
      dating_optimizer |-> 4,
      travel_curator |-> 7 ]

\* C16: a dispatched call of a report tool ends in one of two ways: without
\* its required parameter it gets MissingParameter and no text; with it, for
\* any argument strings (the empty string included), it gets the report with
\* every substitution of the template made.
C16_RenderingIsAtomic ==
    \A e \in Entries :
        e.dispatched /\ e.name \in DOMAIN TemplateSlots =>
            IF CatalogRequired[e.name] \subseteq DOMAIN e.args
            THEN /\ e.response.kind = "text"
                 /\ e.response.body.tool = e.name
                 /\ Cardinality(DOMAIN e.response.body \ {"tool"}) = TemplateSlots[e.name]
            ELSE e.response = Error("MissingParameter")

\* a report has been rendered in full for an empty required argument
C16_Witness ==
    \E e \in Entries :
        /\ e.dispatched
        /\ e.name = "food_innovator"
        /\ "cuisine_type" \in DOMAIN e.args
        /\ e.args["cuisine_type"] = S_empty
        /\ e.response.kind = "text"
        /\ e.response.body.innovation_ideas = S_empty

\* C20: startup_builder reports Competitive Advantage 'Technology innovation'
\* exactly when business_idea contains 'ai' or 'tech' in any letter case,
\* anywhere and also inside a longer word (else 'Unique value proposition'),
\* and Barriers to Entry 'Medium' exactly when it contains 'ai' in any letter
\* case (else 'Low to Medium').
C20_StartupSubstringRules ==
    \A e \in Entries :
        e.name = "startup_builder" /\ e.response.kind = "text" =>
            LET business_idea == e.args["business_idea"]
                report == e.response.body
                ai == ContainsAnyCase(S_ai, business_idea)
                tech == ContainsAnyCase(S_tech, business_idea)
            IN  /\ report.competitive_advantage =
                     IF ai \/ tech THEN "Technology innovation" ELSE "Unique value proposition"
                /\ report.barriers_to_entry = IF ai THEN "Medium" ELSE "Low to Medium"

\* 'Retail shop', which holds 'ai' only inside a word, has been reported with
\* the 'ai' texts
C20_Witness ==
    \E e \in Entries :
        /\ e.name = "startup_builder"
        /\ e.response.kind = "text"
        /\ e.args["business_idea"] = S_Retail_sp_shop
        /\ e.response.body.competitive_advantage = "Technology innovation"
        /\ e.response.body.barriers_to_entry = "Medium"

\* C17: the outcome of every call (access decision, text or error) is the
\* outcome the same call gets when made on its own at the same time, whatever
\* calls, denied or refused ones included, were answered before it.
C17_OutcomeIndependentOfHistory ==
    \A i \in 1..Len(log) :
        log[i] = HandleCall(log[i].token, log[i].name, log[i].args, log[i].time)

\* a denied call and a refused call have been followed by a successful one
C17_Witness ==
    /\ Len(log) = 3
    /\ ~Authorized(log[1])
    /\ log[2].dispatched
    /\ log[2].response.kind = "error"
    /\ log[3].dispatched
    /\ log[3].response.kind = "text"

\* C13: however the steps of concurrent calls interleave, every call is sent
\* the access decision and the response that the same call gets when handled
\* alone, in one piece, at the time its tool read the clock.
C13_InterleavingEqualsAlone ==
    \A e \in Entries :
        LET alone == HandleCall(e.token, e.name, e.args, e.time) IN
        /\ e.access = alone.access
        /\ e.dispatched = alone.dispatched
        /\ e.response = alone.response

\* the call that arrived second was answered with text while the call that
\* arrived first, a different request, was authorized and not yet dispatched
C13_Witness ==
    /\ Len(calls) = 2
    /\ calls[1].stage = "authorized"
    /\ calls[2].stage = "done"
    /\ calls[1].name # calls[2].name
    /\ Len(log) = 1
    /\ log[1].id = 2
    /\ log[1].response.kind = "text"

\* C18: the authorization step of a call changes nothing but that call's own
\* decision: the secret, the identity, the environment, the clock, the
\* answered calls and every other call stay as they were; a token that is not
\* the secret yields the value None, after which the call is denied in the
\* normal way and the server keeps serving.
C18_AuthorizeHasNoSideEffects ==
    [][ \A i \in 1..Len(calls) :
          (calls[i].stage = "received" /\ calls'[i].stage # "received") =>
             /\ TOKEN' = TOKEN
             /\ MY_NUMBER' = MY_NUMBER
             /\ env' = env
             /\ phase' = "serving"
             /\ now' = now
             /\ log' = log
             /\ Len(calls') = Len(calls)
             /\ \A j \in 1..Len(calls) : j # i => calls'[j] = calls[j]
             /\ calls'[i] = [calls[i] EXCEPT !.stage = calls'[i].stage,
                                             !.access = calls'[i].access]
             /\ IF calls[i].token = TOKEN[1]
                THEN calls'[i].stage = "authorized" /\ calls'[i].access # <<>>
                ELSE calls'[i].stage = "denied" /\ calls'[i].access = <<>> ]_vars

\* one call has been denied and answered, and a call that arrived after it has
\* been authorized
C18_Witness ==
    /\ phase = "serving"
    /\ Len(calls) = 2
    /\ calls[1].stage = "done"
    /\ calls[1].access = <<>>
    /\ calls[2].stage = "authorized"
    /\ Len(log) = 1
    /\ log[1].response = Error("AuthenticationFailure")

IsErrorStage(c) ==
    \/ c.stage = "denied"
    \/ c.stage = "dispatched" /\ c.result[1].kind = "error"

ErrorOf(c) == IF c.stage = "denied" THEN Error("AuthenticationFailure") ELSE c.result[1]

\* C19: once a call has failed (denied, unknown operation or missing
\* parameter), its only further step is the sending of exactly that error; a
\* call that was answered takes no further step, is answered once, and what
\* was sent is never changed.
C19_ErrorsAreTerminal ==
    [][ /\ \A i \in 1..Len(calls) :
             /\ IsErrorStage(calls[i]) =>
                   \/ calls'[i] = calls[i]
                   \/ /\ calls'[i] = [calls[i] EXCEPT !.stage = "done"]
                      /\ Len(log') = Len(log) + 1
                      /\ log'[Len(log')].id = i
                      /\ log'[Len(log')].response = ErrorOf(calls[i])
             /\ calls[i].stage = "done" => calls'[i] = calls[i]
        /\ Len(log') >= Len(log)
        /\ SubSeq(log', 1, Len(log)) = log
        /\ \A j, k \in 1..Len(log') : log'[j].id = log'[k].id => j = k ]_vars

\* a denied call and a call refused by the dispatcher have both been
\* answered with their errors
C19_Witness ==
    /\ Len(log) = 2
    /\ \A i \in 1..Len(calls) : calls[i].stage = "done"
    /\ \E e \in Entries : e.response \in {Error("MissingParameter"), Error("UnknownOperation")}
    /\ \E e \in Entries : e.response = Error("AuthenticationFailure")


\* the three platform lines of one branch of content_monetization
PlatformLines(report) ==
    <<report.best_posting_times, report.optimal_length, report.engagement_tactics>>

\* C21: content_monetization chooses its "Best posting times" line by exact
\* match on platform: 'youtube' gives '7-9 PM', 'instagram' '12-3 PM', 'tiktok'
\* '6-10 PM' and any other platform '9-11 AM'; the optimal-length and
\* engagement-tactics lines always come from the same branch as that line.
C21_ContentPlatformBranch ==
    \A e \in Entries :
        e.name = "content_monetization" /\ e.response.kind = "text" =>
            LET platform == ArgOf(e, "platform")
                lines == PlatformLines(e.response.body)
            IN  /\ platform = S_youtube =>
                     lines = <<"7-9 PM", "10-15 minutes", "Call-to-actions, end screens">>
                /\ platform = S_instagram =>
                     lines = <<"12-3 PM", "30-60 seconds", "Stories, Reels, IGTV">>
                /\ platform = S_tiktok =>
                     lines = <<"6-10 PM", "15-60 seconds", "Trending sounds, challenges">>
                /\ platform \notin {S_youtube, S_instagram, S_tiktok} =>
                     lines = <<"9-11 AM", "1500-2500 words", "Comments, social sharing">>

C21_Witness ==
    \E e \in Entries :
        /\ e.name = "content_monetization"
        /\ e.response.kind = "text"
        /\ "platform" \in DOMAIN e.args
        /\ e.args["platform"] = S_YouTube
        /\ PlatformLines(e.response.body) =
               <<"9-11 AM", "1500-2500 words", "Comments, social sharing">>


\* C22: the exact-match branches are case-sensitive although the displayed
\* value is case-normalised: in social_media_trend_predictor a platform that
\* differs from 'tiktok' only in case (such as 'TikTok') is shown under the same
\* 'Tiktok' heading as 'tiktok' but takes the default branch ('9-11 AM',
\* '3-5 times daily'), while 'tiktok' itself takes the tiktok branch; two
\* inputs with the same displayed platform get different timing lines.
C22_SameHeadingDifferentBranch ==
    \A e \in Entries :
        e.name = "social_media_trend_predictor" /\ e.response.kind = "text" =>
            LET platform == e.args["platform"]
                report == e.response.body
                Tiktok == <<"T", "i", "k", "t", "o", "k">>
            IN  /\ lower(platform) = S_tiktok =>
                     /\ report.title = Tiktok
                     /\ report.platform = Tiktok
                     /\ report.trending_for = Tiktok
                /\ platform = S_tiktok =>
                     /\ report.best_posting_times = "7-9 PM"
                     /\ report.optimal_frequency = "2-3 times daily"
                /\ lower(platform) = S_tiktok /\ platform # S_tiktok =>
                     /\ report.best_posting_times = "9-11 AM"
                     /\ report.optimal_frequency = "3-5 times daily"

C22_Witness ==
    \E e \in Entries :
        /\ e.name = "social_media_trend_predictor"
        /\ e.response.kind = "text"
        /\ e.args["platform"] = S_TikTok
        /\ e.response.body.title = capitalize(S_tiktok)
        /\ e.response.body.optimal_frequency = "3-5 times daily"


\* the conditional lines of crypto_intelligence other than "Current Sentiment"
CryptoOtherLines(report) ==
    <<report.market_cap_trend, report.trading_volume, report.risk_level,
      report.potential_roi, report.market_position, report.market_sentiment,
      report.short_term, report.medium_term, report.long_term>>

\* C23: for a name that contains 'ethereum' but not 'bitcoin' (in any letter
\* case) crypto_intelligence reports Current Sentiment 'Bullish' while every
\* other conditional line takes the non-bitcoin branch (Risk Level 'High',
\* Potential ROI '20-40% annually', Market Position 'Emerging player', ...):
\* 'ethereum' changes the sentiment line and nothing else.
C23_EthereumSentimentOnly ==
    \A e \in Entries :
        e.name = "crypto_intelligence" /\ e.response.kind = "text" =>
            LET crypto_name == e.args["crypto_name"]
                report == e.response.body
            IN  ~ContainsAnyCase(S_bitcoin, crypto_name) =>
                    /\ CryptoOtherLines(report) =
                           <<"Stable growth", "Moderate activity", "High",
                             "20-40% annually", "Emerging player", "Positive",
                             "Volatile but upward", "Growth potential",
                             "Increased adoption">>
                    /\ report.current_sentiment =
                           IF ContainsAnyCase(S_ethereum, crypto_name)
                           THEN "Bullish" ELSE "Neutral"

C23_Witness ==
    \E e \in Entries :
        /\ e.name = "crypto_intelligence"
        /\ e.response.kind = "text"
        /\ e.args["crypto_name"] = S_Ethereum
        /\ e.response.body.current_sentiment = "Bullish"
        /\ e.response.body.risk_level = "High"
        /\ e.response.body.market_position = "Emerging player"


\* the six revenue figures of one content_monetization report
RevenueLines(report) ==
    <<report.ad_revenue, report.sponsorships, report.affiliate,
      report.current, report.six_months, report.twelve_months>>

\* C24: content_monetization picks one audience tier per call and uses it on
\* all six revenue lines: 'small' gives the small figures, 'medium' the medium
\* figures and any other audience_size the large figures; no report mixes
\* figures from different tiers.
C24_OneAudienceTier ==
    \A e \in Entries :
        e.name = "content_monetization" /\ e.response.kind = "text" =>
            LET audience_size == ArgOf(e, "audience_size")
                lines == RevenueLines(e.response.body)
            IN  /\ audience_size = S_small =>
                     lines = <<"500-2K", "1K-5K", "200-1K", "500-2K", "2K-8K", "5K-20K">>
                /\ audience_size = S_medium =>
                     lines = <<"2K-10K", "5K-20K", "1K-5K", "2K-10K", "8K-30K", "20K-80K">>
                /\ audience_size \notin {S_small, S_medium} =>
                     lines = <<"10K-50K", "20K-100K", "5K-25K", "10K-50K",
                               "30K-150K", "80K-300K">>

C24_Witness ==
    \E e \in Entries :
        /\ e.name = "content_monetization"
        /\ e.response.kind = "text"
        /\ "audience_size" \in DOMAIN e.args
        /\ e.args["audience_size"] = S_Small
        /\ RevenueLines(e.response.body) =
               <<"10K-50K", "20K-100K", "5K-25K", "10K-50K", "30K-150K", "80K-300K">>


\* C26: startup rejects only an absent secret, not an empty one: with
\* AUTH_TOKEN set to the empty string (and MY_NUMBER set) startup succeeds, the
\* configured secret is the empty string, and a call that presents the empty
\* token is Authorized while every other token is Denied.
C26_EmptySecretAccepted ==
    (env.AUTH_TOKEN = <<S_empty>> /\ env.MY_NUMBER # <<>> /\ phase # "boot") =>
        /\ phase = "serving"
        /\ TOKEN = <<S_empty>>
        /\ \A e \in Entries : Authorized(e) <=> e.token = S_empty

\* the server runs with the empty secret and has granted the empty token access
C26_Witness ==
    /\ phase = "serving"
    /\ env.AUTH_TOKEN = <<S_empty>>
    /\ TOKEN = <<S_empty>>
    /\ \E e \in Entries :
           /\ e.token = S_empty
           /\ e.access = load_access_token(S_empty, S_empty)
           /\ e.access # <<>>


\* the secrets and identities a server can be configured with
Secrets == { s[1] : s \in EnvTokens \ {<<>>} }
Identities == { n[1] : n \in EnvNumbers \ {<<>>} }

\* what a server configured with the given secret and identity answers to the
\* operation, arguments and date of entry e when it is presented its own secret
OtherServer(secret, identity, e) ==
    IF load_access_token(secret, secret) = <<>> THEN Error("AuthenticationFailure")
    ELSE call_tool(e.name, e.args, identity, e.time)

=============================================================================
